---- MODULE Spec2Model ----
(***************************************************************************)
(* State-machine model of the ldapserver core: Server.Serve and            *)
(* Server.Shutdown, and one client Session with its dispatcher             *)
(* (client.serve), Writer Task, shutdown-watch task, request handlers      *)
(* (client.ProcessRequestMessage), Request Registry (requestCancel) and    *)
(* close protocol (client.close).  Both shapes of the dispatcher that the  *)
(* source holds are modelled: the one that reads inline on the dispatch    *)
(* task and the one that reads through a one-deep inbox.                   *)
(***************************************************************************)
EXTENDS Integers, Sequences, FiniteSets, TLC

\* ------------------------------------------------------------------ bounds
MaxListeners == 1   \* listeners handed to Serve
MaxConn == 1        \* connections the listeners accept
MaxReq == 2         \* requests of one Session that reach ProcessRequestMessage
MaxAbandon == 1     \* AbandonRequests one Session reads
MaxWrites == 1      \* responses one handler writes
MaxMsgId == 2       \* message ids the client chooses from: 1..MaxMsgId

Listeners == 1..MaxListeners
Conns == 1..MaxConn
Slots == 1..MaxReq
MsgIds == 1..MaxMsgId

\* ------------------------------------------------------- program constants
ReadTimeout == 0                       \* Server.ReadTimeout, zero value: no deadline
LDAPResultSuccess == 0
LDAPResultUnwillingToPerform == 53
NoticeOfDisconnection == "1.3.6.1.4.1.1466.20036"

VARIABLES
  variant,          \* which client.serve is built: "inline" or "inbox"
  handleConnection, \* Server.HandleConnection: "nil" or "set"
  listeners,        \* Server.listeners
  lnOpen,           \* per listener: not yet closed
  servePc,          \* per listener: position of Serve
  serveErr,         \* per listener: what Serve returned
  serveConn,        \* per listener: the connection Accept returned (0: none)
  serveI,           \* per listener: Serve's local counter i
  nConn,            \* connections accepted so far
  chDone,           \* Server.chDone is closed
  srvWg,            \* Server.wg counter
  shutPc,           \* position of Shutdown
  crashed,          \* "none", or the panic that killed the process
  Numero,           \* per connection: client.Numero
  sPc,              \* per connection: position of client.serve / client.close
  closing,          \* per connection: client.closing: "nil", "open", "closed"
  chanOut,          \* per connection: client.chanOut: "nil", "open", "closed"
  writeDone,        \* per connection: client.writeDone: "nil", "open", "closed"
  sock,             \* per connection: client.rwc: "open", "tls" (set by SetConn), "closed"
  rdl,              \* per connection: read deadline: "none", "timeout", "now"
  wPc,              \* per connection: Writer Task position
  wMsg,             \* per connection: message the Writer Task holds
  watchPc,          \* per connection: shutdown-watch task position
  cliWg,            \* per connection: client.wg counter
  requestCancel,    \* per connection: message id -> slot of the registered cancel (0: absent)
  nReq,             \* per connection: requests handed to ProcessRequestMessage
  nAbandon,         \* per connection: AbandonRequests read
  inlineSlot,       \* per connection: slot running on the dispatch task (0: none)
  hPc,              \* per connection, slot: position of ProcessRequestMessage
  hId,              \* per connection, slot: message id of the request
  hOp,              \* per connection, slot: operation of the request
  hCancelled,       \* per connection, slot: ctx.Done() has fired
  hWrites,          \* per connection, slot: responses written so far
  rPc,              \* per connection: inbox reader position
  rMsg,             \* per connection: message the inbox reader holds
  inbox,            \* per connection: the inbox channel's buffer
  inboxClosed,      \* per connection: inbox is closed
  enq,              \* per connection: messages enqueued on chanOut, in order (history)
  wire,             \* per connection: messages written and flushed, in order (history)
  unbindRecv,       \* per connection: an UnbindRequest was read (history)
  lastOp,           \* the last dispatcher event, for the Abandon claims (history)
  liveAtShutdown    \* per connection: dispatch loop running when chDone closed (history)

srvVars == <<handleConnection, listeners, lnOpen, servePc, serveErr, serveConn,
             serveI, nConn, chDone, srvWg, shutPc>>
chanVars == <<closing, chanOut, writeDone, sock, rdl>>
taskVars == <<wPc, wMsg, watchPc>>
regVars == <<cliWg, requestCancel, nReq, nAbandon, inlineSlot>>
hVars == <<hPc, hId, hOp, hCancelled, hWrites>>
inboxVars == <<rPc, rMsg, inbox, inboxClosed>>
histVars == <<enq, wire, unbindRecv, lastOp, liveAtShutdown>>
vars == <<variant, crashed, Numero, sPc, srvVars, chanVars, taskVars, regVars,
          hVars, inboxVars, histVars>>

\* ---------------------------------------------------------------- messages
NoMsg == [op |-> "none", id |-> 0, target |-> 0]
NoOut == [id |-> -1, op |-> "none", resultCode |-> LDAPResultSuccess, responseName |-> ""]
NoOp == [kind |-> "none", conn |-> 0, id |-> 0, target |-> 0]

\* What a client may send: requests served by a handler, AbandonRequest, UnbindRequest.
RequestOps == {"BindRequest", "SearchRequest", "StartTLS"}
ClientMessages ==
  [op : RequestOps, id : MsgIds, target : {0}]
    \cup [op : {"AbandonRequest"}, id : MsgIds, target : MsgIds]
    \cup [op : {"UnbindRequest"}, id : MsgIds, target : {0}]

\* responseWriterImpl.Write: the protocol op stamped with the writer's message id.
Response(id, op) ==
  [id |-> id, op |-> op, resultCode |-> LDAPResultSuccess, responseName |-> ""]

\* The Notice of Disconnection the shutdown-watch task builds (message id 0).
Notice ==
  [id |-> 0, op |-> "ExtendedResponse", resultCode |-> LDAPResultUnwillingToPerform,
   responseName |-> NoticeOfDisconnection]

IsNotice(m) ==
  /\ m.id = 0
  /\ m.resultCode = LDAPResultUnwillingToPerform
  /\ m.responseName = NoticeOfDisconnection

\* ------------------------------------------------------------------- Init
Init ==
  /\ variant \in {"inline", "inbox"}
  /\ handleConnection \in {"set", "nil"}
  /\ listeners = {}
  /\ lnOpen = [l \in Listeners |-> TRUE]
  /\ servePc = [l \in Listeners |-> "idle"]
  /\ serveErr = [l \in Listeners |-> "none"]
  /\ serveConn = [l \in Listeners |-> 0]
  /\ serveI = [l \in Listeners |-> 0]
  /\ nConn = 0
  /\ chDone = FALSE
  /\ srvWg = 0
  /\ shutPc = "idle"
  /\ crashed = "none"
  /\ Numero = [c \in Conns |-> 0]
  /\ sPc = [c \in Conns |-> "unborn"]
  /\ closing = [c \in Conns |-> "nil"]
  /\ chanOut = [c \in Conns |-> "nil"]
  /\ writeDone = [c \in Conns |-> "nil"]
  /\ sock = [c \in Conns |-> "open"]
  /\ rdl = [c \in Conns |-> "none"]
  /\ wPc = [c \in Conns |-> "none"]
  /\ wMsg = [c \in Conns |-> NoOut]
  /\ watchPc = [c \in Conns |-> "none"]
  /\ cliWg = [c \in Conns |-> 0]
  /\ requestCancel = [c \in Conns |-> [i \in MsgIds |-> 0]]
  /\ nReq = [c \in Conns |-> 0]
  /\ nAbandon = [c \in Conns |-> 0]
  /\ inlineSlot = [c \in Conns |-> 0]
  /\ hPc = [c \in Conns |-> [k \in Slots |-> "free"]]
  /\ hId = [c \in Conns |-> [k \in Slots |-> 0]]
  /\ hOp = [c \in Conns |-> [k \in Slots |-> "none"]]
  /\ hCancelled = [c \in Conns |-> [k \in Slots |-> FALSE]]
  /\ hWrites = [c \in Conns |-> [k \in Slots |-> 0]]
  /\ rPc = [c \in Conns |-> "none"]
  /\ rMsg = [c \in Conns |-> NoMsg]
  /\ inbox = [c \in Conns |-> <<>>]
  /\ inboxClosed = [c \in Conns |-> FALSE]
  /\ enq = [c \in Conns |-> <<>>]
  /\ wire = [c \in Conns |-> <<>>]
  /\ unbindRecv = [c \in Conns |-> FALSE]
  /\ lastOp = NoOp
  /\ liveAtShutdown = [c \in Conns |-> FALSE]

\* Serve as it would be without the check of s.HandleConnection: the listener is
\* registered and the loop entered whatever the configuration.
ServeEnterNoCheck(l) ==
  /\ crashed = "none"
  /\ lastOp' = NoOp
  /\ servePc[l] = "idle"
  /\ servePc' = [servePc EXCEPT ![l] = "accept"]
  /\ listeners' = listeners \cup {l}
  /\ UNCHANGED serveErr
  /\ UNCHANGED <<handleConnection, lnOpen, serveConn, serveI, nConn, chDone, srvWg, shutPc>>
  /\ UNCHANGED <<variant, crashed, Numero, sPc, chanVars, taskVars, regVars, hVars,
                 inboxVars, enq, wire, unbindRecv, liveAtShutdown>>

\* ----------------------------------------------------------------- Server
\* Serve, lines 64-79: the configuration check, then the listener is registered.
ServeEnter(l) ==
  /\ crashed = "none"
  /\ lastOp' = NoOp
  /\ servePc[l] = "idle"
  /\ IF handleConnection = "nil"
       THEN /\ servePc' = [servePc EXCEPT ![l] = "returned"]
            /\ serveErr' = [serveErr EXCEPT ![l] = "no LDAP Request Handler defined"]
            /\ UNCHANGED listeners
       ELSE /\ servePc' = [servePc EXCEPT ![l] = "accept"]
            /\ listeners' = listeners \cup {l}
            /\ UNCHANGED serveErr
  /\ UNCHANGED <<handleConnection, lnOpen, serveConn, serveI, nConn, chDone, srvWg, shutPc>>
  /\ UNCHANGED <<variant, crashed, Numero, sPc, chanVars, taskVars, regVars, hVars,
                 inboxVars, enq, wire, unbindRecv, liveAtShutdown>>

\* listener.Accept() returns a connection: the loop now holds rw.
AcceptConn(l) ==
  /\ crashed = "none"
  /\ lastOp' = NoOp
  /\ servePc[l] = "accept"
  /\ lnOpen[l]
  /\ nConn + 1 \in DOMAIN sPc
  /\ nConn' = nConn + 1
  /\ serveConn' = [serveConn EXCEPT ![l] = nConn + 1]
  /\ servePc' = [servePc EXCEPT ![l] = "accepted"]
  /\ UNCHANGED <<handleConnection, listeners, lnOpen, serveErr, serveI, chDone, srvWg, shutPc>>
  /\ UNCHANGED <<variant, crashed, Numero, sPc, chanVars, taskVars, regVars, hVars,
                 inboxVars, enq, wire, unbindRecv, liveAtShutdown>>

\* listener.Accept() fails with a Temporary() error: sleep 100 ms and continue.
AcceptTemporary(l) ==
  /\ crashed = "none"
  /\ lastOp' = NoOp
  /\ servePc[l] = "accept"
  /\ lnOpen[l]
  /\ UNCHANGED <<srvVars, variant, crashed, Numero, sPc, chanVars, taskVars, regVars,
                 hVars, inboxVars, enq, wire, unbindRecv, liveAtShutdown>>

\* listener.Accept() fails for good, the listener being closed: Serve returns the
\* error and its deferred function deregisters the listener.
AcceptFatal(l) ==
  /\ crashed = "none"
  /\ lastOp' = NoOp
  /\ servePc[l] = "accept"
  /\ ~lnOpen[l]
  /\ servePc' = [servePc EXCEPT ![l] = "returned"]
  /\ serveErr' = [serveErr EXCEPT ![l] = "use of closed network connection"]
  /\ listeners' = listeners \ {l}
  /\ UNCHANGED <<handleConnection, lnOpen, serveConn, serveI, nConn, chDone, srvWg, shutPc>>
  /\ UNCHANGED <<variant, crashed, Numero, sPc, chanVars, taskVars, regVars, hVars,
                 inboxVars, enq, wire, unbindRecv, liveAtShutdown>>

\* Serve, lines 94-112: deadlines, i++, the client, s.wg.Add(1), go cli.serve().
AcceptSpawn(l) ==
  /\ crashed = "none"
  /\ lastOp' = NoOp
  /\ servePc[l] = "accepted"
  /\ LET c == serveConn[l] IN
       /\ serveI' = [serveI EXCEPT ![l] = serveI[l] + 1]
       /\ Numero' = [Numero EXCEPT ![c] = serveI[l] + 1]
       /\ rdl' = [rdl EXCEPT ![c] = IF ReadTimeout > 0 THEN "timeout" ELSE rdl[c]]
       /\ srvWg' = srvWg + 1
       /\ sPc' = [sPc EXCEPT ![c] = "start"]
  /\ serveConn' = [serveConn EXCEPT ![l] = 0]
  /\ servePc' = [servePc EXCEPT ![l] = "accept"]
  /\ UNCHANGED <<handleConnection, listeners, lnOpen, serveErr, nConn, chDone, shutPc>>
  /\ UNCHANGED <<variant, crashed, closing, chanOut, writeDone, sock, taskVars, regVars,
                 hVars, inboxVars, enq, wire, unbindRecv, liveAtShutdown>>

\* Shutdown, lines 127-132: under s.mu close every registered listener, clear the set.
ShutdownLock ==
  /\ crashed = "none"
  /\ lastOp' = NoOp
  /\ shutPc = "idle"
  /\ lnOpen' = [l \in DOMAIN lnOpen |-> IF l \in listeners THEN FALSE ELSE lnOpen[l]]
  /\ listeners' = {}
  /\ shutPc' = "signal"
  /\ UNCHANGED <<handleConnection, servePc, serveErr, serveConn, serveI, nConn, chDone, srvWg>>
  /\ UNCHANGED <<variant, crashed, Numero, sPc, chanVars, taskVars, regVars, hVars,
                 inboxVars, enq, wire, unbindRecv, liveAtShutdown>>

\* A Session whose dispatch loop is running: it has a Handler, its socket is open
\* and its closing signal has not been emitted.
Dispatching(c) == sPc[c] \in {"read", "recv", "inline"}

\* Shutdown, line 133: close(s.chDone).
ShutdownSignal ==
  /\ crashed = "none"
  /\ lastOp' = NoOp
  /\ shutPc = "signal"
  /\ IF chDone
       THEN /\ crashed' = "close of closed channel"
            /\ UNCHANGED <<chDone, shutPc, liveAtShutdown>>
       ELSE /\ chDone' = TRUE
            /\ shutPc' = "wait"
            /\ liveAtShutdown' = [c \in DOMAIN sPc |-> Dispatching(c)]
            /\ UNCHANGED crashed
  /\ UNCHANGED <<handleConnection, listeners, lnOpen, servePc, serveErr, serveConn, serveI,
                 nConn, srvWg>>
  /\ UNCHANGED <<variant, Numero, sPc, chanVars, taskVars, regVars, hVars,
                 inboxVars, enq, wire, unbindRecv>>

\* Shutdown, line 135: s.wg.Wait() returns when the counter is zero.
ShutdownWait ==
  /\ crashed = "none"
  /\ lastOp' = NoOp
  /\ shutPc = "wait"
  /\ srvWg = 0
  /\ shutPc' = "returned"
  /\ UNCHANGED <<handleConnection, listeners, lnOpen, servePc, serveErr, serveConn, serveI,
                 nConn, chDone, srvWg>>
  /\ UNCHANGED <<variant, crashed, Numero, sPc, chanVars, taskVars, regVars, hVars,
                 inboxVars, enq, wire, unbindRecv, liveAtShutdown>>

\* ---------------------------------------------------------------- Session
InboxCap == 1   \* make(chan *ldap.LDAPMessage, 1)

\* The loop's first statement: the read deadline is renewed when ReadTimeout > 0.
LoopDeadline(d) == IF ReadTimeout > 0 THEN "timeout" ELSE d

\* The dispatch task's loop position in the variant built.
LoopPc == IF variant = "inline" THEN "read" ELSE "recv"

\* client.serve up to its loop: make(closing), HandleConnection(c.rwc); without a
\* Handler return (the deferred close runs); with one, make chanOut and writeDone
\* and start the Writer Task, the shutdown-watch task and, in the inbox variant,
\* the inbox reader.
serveStart(c) ==
  /\ crashed = "none"
  /\ lastOp' = NoOp
  /\ sPc[c] = "start"
  /\ closing' = [closing EXCEPT ![c] = "open"]
  /\ \E handler \in {"nil", "handler"} :
       IF handler = "nil"
         THEN /\ sPc' = [sPc EXCEPT ![c] = "close"]
              /\ UNCHANGED <<chanOut, writeDone, rdl, wPc, watchPc, rPc>>
         ELSE /\ chanOut' = [chanOut EXCEPT ![c] = "open"]
              /\ writeDone' = [writeDone EXCEPT ![c] = "open"]
              /\ wPc' = [wPc EXCEPT ![c] = "recv"]
              /\ watchPc' = [watchPc EXCEPT ![c] = "select"]
              /\ rPc' = [rPc EXCEPT ![c] = IF variant = "inbox" THEN "read" ELSE "none"]
              /\ sPc' = [sPc EXCEPT ![c] = LoopPc]
              /\ rdl' = [rdl EXCEPT ![c] = LoopDeadline(rdl[c])]
  /\ UNCHANGED <<variant, crashed, Numero, srvVars, sock, wMsg, regVars, hVars,
                 rMsg, inbox, inboxClosed, enq, wire, unbindRecv, liveAtShutdown>>

\* context.CancelFunc: firing is idempotent.
cancelCtx(canc, k) == [canc EXCEPT ![k] = TRUE]

\* client.cancelMessageID: under the lock, fire and delete the entry of messageID.
cancelMessageID(c, messageID) ==
  /\ hCancelled' = [hCancelled EXCEPT ![c] =
       IF requestCancel[c][messageID] # 0
         THEN cancelCtx(hCancelled[c], requestCancel[c][messageID])
         ELSE hCancelled[c]]
  /\ requestCancel' = [requestCancel EXCEPT ![c][messageID] = 0]

\* The dispatcher as it would be with the StartTLS case handled like the default
\* one: every ProcessRequestMessage is started with go, the loop goes on reading.
StartRequestAlwaysGo(c, m, onDispatchTask) ==
  LET k == nReq[c] + 1 IN
    /\ nReq[c] < MaxReq
    /\ nReq' = [nReq EXCEPT ![c] = k]
    /\ cliWg' = [cliWg EXCEPT ![c] = cliWg[c] + 1]
    /\ hPc' = [hPc EXCEPT ![c][k] = "called"]
    /\ hId' = [hId EXCEPT ![c][k] = m.id]
    /\ hOp' = [hOp EXCEPT ![c][k] = m.op]
    /\ inlineSlot' = [inlineSlot EXCEPT ![c] = 0]
    /\ sPc' = sPc

\* c.wg.Add(1) and the call (or go) of ProcessRequestMessage for message m.
StartRequest(c, m, onDispatchTask) ==
  LET k == nReq[c] + 1 IN
    /\ nReq[c] < MaxReq
    /\ nReq' = [nReq EXCEPT ![c] = k]
    /\ cliWg' = [cliWg EXCEPT ![c] = cliWg[c] + 1]
    /\ hPc' = [hPc EXCEPT ![c][k] = "called"]
    /\ hId' = [hId EXCEPT ![c][k] = m.id]
    /\ hOp' = [hOp EXCEPT ![c][k] = m.op]
    /\ inlineSlot' = [inlineSlot EXCEPT ![c] = IF onDispatchTask THEN k ELSE 0]
    /\ sPc' = [sPc EXCEPT ![c] = IF onDispatchTask THEN "inline" ELSE sPc[c]]

\* The id the inline dispatcher hands to cancelMessageID: int(req), the target.
AbandonTargetInline(m) == m.target

\* client.serve, inline variant, lines 85-139: one message read and dispatched.
DispatchMessage(c, m) ==
  /\ crashed = "none"
  /\ variant = "inline"
  /\ sPc[c] = "read"
  /\ m.op = "AbandonRequest" => nAbandon[c] < MaxAbandon
  /\ nAbandon' = [nAbandon EXCEPT ![c] = IF m.op = "AbandonRequest" THEN nAbandon[c] + 1
                                                                     ELSE nAbandon[c]]
  /\ lastOp' = IF m.op = "AbandonRequest"
                 THEN [kind |-> m.op, conn |-> c, id |-> m.id, target |-> m.target]
                 ELSE NoOp
  /\ rdl' = [rdl EXCEPT ![c] = IF m.op = "UnbindRequest" THEN rdl[c]
                                                           ELSE LoopDeadline(rdl[c])]
  /\ CASE m.op = "AbandonRequest" ->
            /\ cancelMessageID(c, AbandonTargetInline(m))
            /\ UNCHANGED <<sPc, cliWg, nReq, inlineSlot, hPc, hId, hOp, unbindRecv>>
       [] m.op = "UnbindRequest" ->
            /\ sPc' = [sPc EXCEPT ![c] = "close"]
            /\ unbindRecv' = [unbindRecv EXCEPT ![c] = TRUE]
            /\ UNCHANGED <<cliWg, requestCancel, nReq, inlineSlot, hPc, hId, hOp, hCancelled>>
       [] m.op = "StartTLS" ->
            /\ StartRequest(c, m, TRUE)
            /\ UNCHANGED <<requestCancel, hCancelled, unbindRecv>>
       [] OTHER ->
            /\ StartRequest(c, m, FALSE)
            /\ UNCHANGED <<requestCancel, hCancelled, unbindRecv>>
  /\ UNCHANGED <<variant, crashed, Numero, srvVars, closing, chanOut, writeDone, sock,
                 taskVars, hWrites, inboxVars, enq, wire, liveAtShutdown>>

\* readMessagePacket fails because the read deadline passed.
ReadTimeoutError(c) ==
  /\ crashed = "none"
  /\ lastOp' = NoOp
  /\ variant = "inline"
  /\ sPc[c] = "read"
  /\ rdl[c] # "none"
  /\ sPc' = [sPc EXCEPT ![c] = "close"]
  /\ UNCHANGED <<variant, crashed, Numero, srvVars, chanVars, taskVars, regVars, hVars,
                 inboxVars, enq, wire, unbindRecv, liveAtShutdown>>

\* readMessagePacket fails because the client went away.
ReadEOF(c) ==
  /\ crashed = "none"
  /\ lastOp' = NoOp
  /\ variant = "inline"
  /\ sPc[c] = "read"
  /\ sPc' = [sPc EXCEPT ![c] = "close"]
  /\ UNCHANGED <<variant, crashed, Numero, srvVars, chanVars, taskVars, regVars, hVars,
                 inboxVars, enq, wire, unbindRecv, liveAtShutdown>>

\* ------------------------------------------------- ProcessRequestMessage
\* Lines 212-221: the cancel function of the request is stored under its message id.
Register(c, k) ==
  /\ crashed = "none"
  /\ lastOp' = NoOp
  /\ hPc[c][k] = "called"
  /\ hPc' = [hPc EXCEPT ![c][k] = "serving"]
  /\ requestCancel' = [requestCancel EXCEPT ![c][hId[c][k]] = k]
  /\ UNCHANGED <<variant, crashed, Numero, sPc, srvVars, chanVars, taskVars, cliWg, nReq,
                 nAbandon, inlineSlot, hId, hOp, hCancelled, hWrites, inboxVars, enq, wire,
                 unbindRecv, liveAtShutdown>>

\* The response a handler writes for a request of operation op.
ResponseOp(op) ==
  CASE op = "BindRequest" -> "BindResponse"
    [] op = "SearchRequest" -> "SearchResultEntry"
    [] OTHER -> "ExtendedResponse"

\* c.chanOut <- m on the unbuffered queue: a send on a closed channel panics; on an
\* open one it completes when the Writer Task receives.
Enqueue(c, m) ==
  IF chanOut[c] = "closed"
    THEN /\ crashed' = "send on closed channel"
         /\ UNCHANGED <<wPc, wMsg, enq>>
    ELSE /\ chanOut[c] = "open"
         /\ wPc[c] = "recv"
         /\ wPc' = [wPc EXCEPT ![c] = "write"]
         /\ wMsg' = [wMsg EXCEPT ![c] = m]
         /\ enq' = [enq EXCEPT ![c] = Append(enq[c], m)]
         /\ UNCHANGED crashed

\* responseWriterImpl.Write called by the handler in ServeLDAP.
HandlerWrite(c, k) ==
  /\ crashed = "none"
  /\ lastOp' = NoOp
  /\ hPc[c][k] = "serving"
  /\ hWrites[c][k] < MaxWrites
  /\ Enqueue(c, Response(hId[c][k], ResponseOp(hOp[c][k])))
  /\ hWrites' = [hWrites EXCEPT ![c][k] = IF crashed' = "none" THEN hWrites[c][k] + 1
                                                                 ELSE hWrites[c][k]]
  /\ UNCHANGED <<variant, Numero, sPc, srvVars, chanVars, watchPc, regVars, hPc, hId, hOp,
                 hCancelled, inboxVars, wire, unbindRecv, liveAtShutdown>>

\* Whether ServeLDAP may return: a Search handler streams entries until its context
\* is done (examples/abandon handleSearch); the other handlers return on their own.
MayReturn(c, k) == hOp[c][k] = "SearchRequest" => hCancelled[c][k]

\* handler.ServeLDAP returns and the deferred functions of ProcessRequestMessage
\* run, last registered first: delete(c.requestCancel, messageID) under the lock
\* (lines 222-226), cancelCtx() (line 213), c.wg.Done() (line 204); a call made on
\* the dispatch task returns to the loop.
HandlerReturn(c, k) ==
  /\ crashed = "none"
  /\ lastOp' = NoOp
  /\ hPc[c][k] = "serving"
  /\ MayReturn(c, k)
  /\ hPc' = [hPc EXCEPT ![c][k] = "finished"]
  /\ requestCancel' = [requestCancel EXCEPT ![c][hId[c][k]] = 0]
  /\ hCancelled' = [hCancelled EXCEPT ![c] = cancelCtx(hCancelled[c], k)]
  /\ cliWg' = [cliWg EXCEPT ![c] = cliWg[c] - 1]
  /\ IF inlineSlot[c] = k
       THEN /\ inlineSlot' = [inlineSlot EXCEPT ![c] = 0]
            /\ sPc' = [sPc EXCEPT ![c] = LoopPc]
            /\ rdl' = [rdl EXCEPT ![c] = IF variant = "inline" THEN LoopDeadline(rdl[c])
                                                                  ELSE rdl[c]]
       ELSE UNCHANGED <<inlineSlot, sPc, rdl>>
  /\ UNCHANGED <<variant, crashed, Numero, srvVars, closing, chanOut, writeDone, sock,
                 taskVars, nReq, nAbandon, hId, hOp, hWrites, inboxVars, enq,
                 wire, unbindRecv, liveAtShutdown>>

\* ------------------------------------------------------------ Writer Task
\* client.writeMessage: the message is written to c.bw and flushed.
writeMessage(c) ==
  /\ crashed = "none"
  /\ lastOp' = NoOp
  /\ wPc[c] = "write"
  /\ wire' = [wire EXCEPT ![c] = Append(wire[c], wMsg[c])]
  /\ wMsg' = [wMsg EXCEPT ![c] = NoOut]
  /\ wPc' = [wPc EXCEPT ![c] = "recv"]
  /\ UNCHANGED <<variant, crashed, Numero, sPc, srvVars, chanVars, watchPc, regVars, hVars,
                 inboxVars, enq, unbindRecv, liveAtShutdown>>

\* range c.chanOut ends when the queue is closed: close(c.writeDone).
WriterExit(c) ==
  /\ crashed = "none"
  /\ lastOp' = NoOp
  /\ wPc[c] = "recv"
  /\ chanOut[c] = "closed"
  /\ wPc' = [wPc EXCEPT ![c] = "exit"]
  /\ writeDone' = [writeDone EXCEPT ![c] = "closed"]
  /\ UNCHANGED <<variant, crashed, Numero, sPc, srvVars, closing, chanOut, sock, rdl, wMsg,
                 watchPc, regVars, hVars, inboxVars, enq, wire, unbindRecv, liveAtShutdown>>

\* ---------------------------------------------------- shutdown-watch task
\* The select of lines 66-81 takes a ready case: <-c.srv.chDone or <-c.closing.
WatchSelect(c) ==
  /\ crashed = "none"
  /\ lastOp' = NoOp
  /\ watchPc[c] = "select"
  /\ \/ /\ chDone
        /\ watchPc' = [watchPc EXCEPT ![c] = "add"]
     \/ /\ closing[c] = "closed"
        /\ watchPc' = [watchPc EXCEPT ![c] = "exit"]
  /\ UNCHANGED <<variant, crashed, Numero, sPc, srvVars, chanVars, wPc, wMsg, regVars,
                 hVars, inboxVars, enq, wire, unbindRecv, liveAtShutdown>>

\* Line 68: c.wg.Add(1).
WatchAdd(c) ==
  /\ crashed = "none"
  /\ lastOp' = NoOp
  /\ watchPc[c] = "add"
  /\ watchPc' = [watchPc EXCEPT ![c] = "send"]
  /\ cliWg' = [cliWg EXCEPT ![c] = cliWg[c] + 1]
  /\ UNCHANGED <<variant, crashed, Numero, sPc, srvVars, chanVars, wPc, wMsg, requestCancel,
                 nReq, nAbandon, inlineSlot, hVars, inboxVars, enq, wire, unbindRecv,
                 liveAtShutdown>>

\* Lines 69-75: the Notice of Disconnection is built and sent on c.chanOut.
WatchSend(c) ==
  /\ crashed = "none"
  /\ lastOp' = NoOp
  /\ watchPc[c] = "send"
  /\ Enqueue(c, Notice)
  /\ watchPc' = [watchPc EXCEPT ![c] = IF crashed' = "none" THEN "done" ELSE watchPc[c]]
  /\ UNCHANGED <<variant, Numero, sPc, srvVars, chanVars, regVars, hVars, inboxVars, wire,
                 unbindRecv, liveAtShutdown>>

\* Lines 76-78: c.wg.Done(), the read deadline one millisecond ahead, return.
WatchDone(c) ==
  /\ crashed = "none"
  /\ lastOp' = NoOp
  /\ watchPc[c] = "done"
  /\ watchPc' = [watchPc EXCEPT ![c] = "exit"]
  /\ cliWg' = [cliWg EXCEPT ![c] = cliWg[c] - 1]
  /\ rdl' = [rdl EXCEPT ![c] = "now"]
  /\ UNCHANGED <<variant, crashed, Numero, sPc, srvVars, closing, chanOut, writeDone, sock,
                 wPc, wMsg, requestCancel, nReq, nAbandon, inlineSlot, hVars, inboxVars, enq,
                 wire, unbindRecv, liveAtShutdown>>

\* ----------------------------------------------------------- client.close
\* Lines 151-154: close(c.closing), then the read deadline one millisecond ahead.
closeSignal(c) ==
  /\ crashed = "none"
  /\ lastOp' = NoOp
  /\ sPc[c] = "close"
  /\ IF closing[c] = "open"
       THEN /\ closing' = [closing EXCEPT ![c] = "closed"]
            /\ rdl' = [rdl EXCEPT ![c] = "now"]
            /\ sPc' = [sPc EXCEPT ![c] = "cancel"]
            /\ UNCHANGED crashed
       ELSE /\ crashed' = "close of nil or closed channel"
            /\ UNCHANGED <<closing, rdl, sPc>>
  /\ UNCHANGED <<variant, Numero, srvVars, chanOut, writeDone, sock, taskVars, regVars,
                 hVars, inboxVars, enq, wire, unbindRecv, liveAtShutdown>>

\* The cancel functions close() fires: those of the entries of the registry.
CancelAll(canc, reg) ==
  [k \in Slots |-> canc[k] \/ (\E i \in MsgIds : reg[i] = k)]

\* Lines 158-164: under the lock, fire every registered cancel, clear the registry.
closeCancel(c) ==
  /\ crashed = "none"
  /\ lastOp' = NoOp
  /\ sPc[c] = "cancel"
  /\ hCancelled' = [hCancelled EXCEPT ![c] = CancelAll(hCancelled[c], requestCancel[c])]
  /\ requestCancel' = [requestCancel EXCEPT ![c] = [i \in MsgIds |-> 0]]
  /\ sPc' = [sPc EXCEPT ![c] = "wait"]
  /\ UNCHANGED <<variant, crashed, Numero, srvVars, chanVars, taskVars, cliWg, nReq, nAbandon,
                 inlineSlot, hPc, hId, hOp, hWrites, inboxVars, enq, wire, unbindRecv,
                 liveAtShutdown>>

\* close() as it would be without c.wg.Wait(): the queue is closed under running handlers.
HandlersJoinedNoWait(c) == cliWg[c] >= 0

\* What c.wg.Wait() of line 167 waits for.
HandlersJoined(c) == cliWg[c] = 0

\* Line 167: c.wg.Wait() returns.
closeWait(c) ==
  /\ crashed = "none"
  /\ lastOp' = NoOp
  /\ sPc[c] = "wait"
  /\ HandlersJoined(c)
  /\ sPc' = [sPc EXCEPT ![c] = "closeq"]
  /\ UNCHANGED <<variant, crashed, Numero, srvVars, chanVars, taskVars, regVars, hVars,
                 inboxVars, enq, wire, unbindRecv, liveAtShutdown>>

\* Line 168: close(c.chanOut); closing a nil or a closed channel panics.
closeQueue(c) ==
  /\ crashed = "none"
  /\ lastOp' = NoOp
  /\ sPc[c] = "closeq"
  /\ IF chanOut[c] = "open"
       THEN /\ chanOut' = [chanOut EXCEPT ![c] = "closed"]
            /\ sPc' = [sPc EXCEPT ![c] = "drain"]
            /\ UNCHANGED crashed
       ELSE /\ crashed' = IF chanOut[c] = "nil" THEN "close of nil channel"
                                                ELSE "close of closed channel"
            /\ UNCHANGED <<chanOut, sPc>>
  /\ UNCHANGED <<variant, Numero, srvVars, closing, writeDone, sock, rdl, taskVars, regVars,
                 hVars, inboxVars, enq, wire, unbindRecv, liveAtShutdown>>

\* close() as it would be without <-c.writeDone: the socket is closed under the writer.
WriterDrainedNoWait(c) == writeDone[c] # "nil"

\* What <-c.writeDone of line 171 waits for.
WriterDrained(c) == writeDone[c] = "closed"

\* Lines 171-172: <-c.writeDone, then c.rwc.Close().
closeSocket(c) ==
  /\ crashed = "none"
  /\ lastOp' = NoOp
  /\ sPc[c] = "drain"
  /\ WriterDrained(c)
  /\ sock' = [sock EXCEPT ![c] = "closed"]
  /\ sPc' = [sPc EXCEPT ![c] = "release"]
  /\ UNCHANGED <<variant, crashed, Numero, srvVars, closing, chanOut, writeDone, rdl,
                 taskVars, regVars, hVars, inboxVars, enq, wire, unbindRecv, liveAtShutdown>>

\* Line 175: c.srv.wg.Done().
closeRelease(c) ==
  /\ crashed = "none"
  /\ lastOp' = NoOp
  /\ sPc[c] = "release"
  /\ srvWg' = srvWg - 1
  /\ sPc' = [sPc EXCEPT ![c] = "done"]
  /\ UNCHANGED <<handleConnection, listeners, lnOpen, servePc, serveErr, serveConn, serveI,
                 nConn, chDone, shutPc>>
  /\ UNCHANGED <<variant, crashed, Numero, chanVars, taskVars, regVars, hVars, inboxVars,
                 enq, wire, unbindRecv, liveAtShutdown>>

\* ----------------------------------------------------------- inbox variant
\* Requests the inbox reader has passed on or holds.
RequestsRead(c) == nReq[c] + Len(inbox[c]) + (IF rPc[c] = "put" THEN 1 ELSE 0)

\* The id the inbox reader hands to cancelMessageID: int(message.MessageID()).
AbandonTargetInbox(m) == m.id

\* The inbox reader, lines 334-352: one message read; an AbandonRequest is handled
\* here, an UnbindRequest ends the reader (the deferred close(inbox) runs), any
\* other message goes to the inbox.  This variant has no StartTLS case: a StartTLS
\* request takes the default path exactly as a BindRequest does, so the client of
\* this variant is given the other operations only.
ReaderMessage(c, m) ==
  /\ crashed = "none"
  /\ variant = "inbox"
  /\ rPc[c] = "read"
  /\ m.op = "AbandonRequest" => nAbandon[c] < MaxAbandon
  /\ nAbandon' = [nAbandon EXCEPT ![c] = IF m.op = "AbandonRequest" THEN nAbandon[c] + 1
                                                                     ELSE nAbandon[c]]
  /\ lastOp' = IF m.op = "AbandonRequest"
                 THEN [kind |-> m.op, conn |-> c, id |-> m.id, target |-> m.target]
                 ELSE NoOp
  /\ CASE m.op = "AbandonRequest" ->
            /\ cancelMessageID(c, AbandonTargetInbox(m))
            /\ UNCHANGED <<rPc, rMsg, inboxClosed, unbindRecv>>
       [] m.op = "UnbindRequest" ->
            /\ rPc' = [rPc EXCEPT ![c] = "exit"]
            /\ inboxClosed' = [inboxClosed EXCEPT ![c] = TRUE]
            /\ unbindRecv' = [unbindRecv EXCEPT ![c] = TRUE]
            /\ UNCHANGED <<rMsg, requestCancel, hCancelled>>
       [] OTHER ->
            /\ m.op # "StartTLS"
            /\ RequestsRead(c) < MaxReq
            /\ rPc' = [rPc EXCEPT ![c] = "put"]
            /\ rMsg' = [rMsg EXCEPT ![c] = m]
            /\ UNCHANGED <<inboxClosed, unbindRecv, requestCancel, hCancelled>>
  /\ UNCHANGED <<variant, crashed, Numero, sPc, srvVars, chanVars, taskVars, cliWg, nReq,
                 inlineSlot, hPc, hId, hOp, hWrites, inbox, enq, wire, liveAtShutdown>>

\* Line 349: inbox <- message completes when the buffer has room.
ReaderPut(c) ==
  /\ crashed = "none"
  /\ lastOp' = NoOp
  /\ rPc[c] = "put"
  /\ Len(inbox[c]) < InboxCap
  /\ inbox' = [inbox EXCEPT ![c] = Append(inbox[c], rMsg[c])]
  /\ rMsg' = [rMsg EXCEPT ![c] = NoMsg]
  /\ rPc' = [rPc EXCEPT ![c] = "read"]
  /\ UNCHANGED <<variant, crashed, Numero, sPc, srvVars, chanVars, taskVars, regVars, hVars,
                 inboxClosed, enq, wire, unbindRecv, liveAtShutdown>>

\* c.readMessage fails (the deadline passed, or the client went away): the reader
\* returns and its deferred close(inbox) runs.
ReaderError(c) ==
  /\ crashed = "none"
  /\ lastOp' = NoOp
  /\ variant = "inbox"
  /\ rPc[c] = "read"
  /\ rPc' = [rPc EXCEPT ![c] = "exit"]
  /\ inboxClosed' = [inboxClosed EXCEPT ![c] = TRUE]
  /\ UNCHANGED <<variant, crashed, Numero, sPc, srvVars, chanVars, taskVars, regVars, hVars,
                 rMsg, inbox, enq, wire, unbindRecv, liveAtShutdown>>

\* client.serve, inbox variant, lines 354-361: the next message of the inbox is
\* processed on the dispatch task.
InboxDispatch(c) ==
  /\ crashed = "none"
  /\ lastOp' = NoOp
  /\ variant = "inbox"
  /\ sPc[c] = "recv"
  /\ inbox[c] # <<>>
  /\ StartRequest(c, Head(inbox[c]), TRUE)
  /\ inbox' = [inbox EXCEPT ![c] = Tail(inbox[c])]
  /\ UNCHANGED <<variant, crashed, Numero, srvVars, chanVars, taskVars, requestCancel,
                 nAbandon, hCancelled, hWrites, rPc, rMsg, inboxClosed, enq, wire, unbindRecv,
                 liveAtShutdown>>

\* range inbox ends when the inbox is closed and empty: serve returns.
InboxClosed(c) ==
  /\ crashed = "none"
  /\ lastOp' = NoOp
  /\ variant = "inbox"
  /\ sPc[c] = "recv"
  /\ inbox[c] = <<>>
  /\ inboxClosed[c]
  /\ sPc' = [sPc EXCEPT ![c] = "close"]
  /\ UNCHANGED <<variant, crashed, Numero, srvVars, chanVars, taskVars, regVars, hVars,
                 inboxVars, enq, wire, unbindRecv, liveAtShutdown>>

\* ------------------------------------------------------------------- Next
Next ==
  \/ \E l \in Listeners : ServeEnter(l)
  \/ \E l \in Listeners : AcceptConn(l)
  \/ \E l \in Listeners : AcceptTemporary(l)
  \/ \E l \in Listeners : AcceptFatal(l)
  \/ \E l \in Listeners : AcceptSpawn(l)
  \/ ShutdownLock
  \/ ShutdownSignal
  \/ ShutdownWait
  \/ \E c \in Conns : serveStart(c)
  \/ \E c \in Conns, m \in ClientMessages : DispatchMessage(c, m)
  \/ \E c \in Conns : ReadTimeoutError(c)
  \/ \E c \in Conns : ReadEOF(c)
  \/ \E c \in Conns, k \in Slots : Register(c, k)
  \/ \E c \in Conns, k \in Slots : HandlerWrite(c, k)
  \/ \E c \in Conns, k \in Slots : HandlerReturn(c, k)
  \/ \E c \in Conns : writeMessage(c)
  \/ \E c \in Conns : WriterExit(c)
  \/ \E c \in Conns : WatchSelect(c)
  \/ \E c \in Conns : WatchAdd(c)
  \/ \E c \in Conns : WatchSend(c)
  \/ \E c \in Conns : WatchDone(c)
  \/ \E c \in Conns : closeSignal(c)
  \/ \E c \in Conns : closeCancel(c)
  \/ \E c \in Conns : closeWait(c)
  \/ \E c \in Conns : closeQueue(c)
  \/ \E c \in Conns : closeSocket(c)
  \/ \E c \in Conns : closeRelease(c)
  \/ \E c \in Conns, m \in ClientMessages : ReaderMessage(c, m)
  \/ \E c \in Conns : ReaderPut(c)
  \/ \E c \in Conns : ReaderError(c)
  \/ \E c \in Conns : InboxDispatch(c)
  \/ \E c \in Conns : InboxClosed(c)

Spec == Init /\ [][Next]_vars

\* ------------------------------------------- the Server with several listeners
\* The same Server, handed MaxSrvListeners listeners that accept MaxSrvConn
\* connections in all, with clients that connect and go away without a request,
\* so that the accept loops, the listener set, the ordinals and repeated calls of
\* Shutdown are explored with more than one listener and Session.
MaxSrvListeners == 2   \* listeners handed to Serve
MaxSrvConn == 2        \* connections the listeners accept

SrvListeners == 1..MaxSrvListeners
SrvConns == 1..MaxSrvConn

SrvInit ==
  /\ variant = "inline"
  /\ handleConnection \in {"set", "nil"}
  /\ listeners = {}
  /\ lnOpen = [l \in SrvListeners |-> TRUE]
  /\ servePc = [l \in SrvListeners |-> "idle"]
  /\ serveErr = [l \in SrvListeners |-> "none"]
  /\ serveConn = [l \in SrvListeners |-> 0]
  /\ serveI = [l \in SrvListeners |-> 0]
  /\ nConn = 0
  /\ chDone = FALSE
  /\ srvWg = 0
  /\ shutPc = "idle"
  /\ crashed = "none"
  /\ Numero = [c \in SrvConns |-> 0]
  /\ sPc = [c \in SrvConns |-> "unborn"]
  /\ closing = [c \in SrvConns |-> "nil"]
  /\ chanOut = [c \in SrvConns |-> "nil"]
  /\ writeDone = [c \in SrvConns |-> "nil"]
  /\ sock = [c \in SrvConns |-> "open"]
  /\ rdl = [c \in SrvConns |-> "none"]
  /\ wPc = [c \in SrvConns |-> "none"]
  /\ wMsg = [c \in SrvConns |-> NoOut]
  /\ watchPc = [c \in SrvConns |-> "none"]
  /\ cliWg = [c \in SrvConns |-> 0]
  /\ requestCancel = [c \in SrvConns |-> [i \in MsgIds |-> 0]]
  /\ nReq = [c \in SrvConns |-> 0]
  /\ nAbandon = [c \in SrvConns |-> 0]
  /\ inlineSlot = [c \in SrvConns |-> 0]
  /\ hPc = [c \in SrvConns |-> [k \in Slots |-> "free"]]
  /\ hId = [c \in SrvConns |-> [k \in Slots |-> 0]]
  /\ hOp = [c \in SrvConns |-> [k \in Slots |-> "none"]]
  /\ hCancelled = [c \in SrvConns |-> [k \in Slots |-> FALSE]]
  /\ hWrites = [c \in SrvConns |-> [k \in Slots |-> 0]]
  /\ rPc = [c \in SrvConns |-> "none"]
  /\ rMsg = [c \in SrvConns |-> NoMsg]
  /\ inbox = [c \in SrvConns |-> <<>>]
  /\ inboxClosed = [c \in SrvConns |-> FALSE]
  /\ enq = [c \in SrvConns |-> <<>>]
  /\ wire = [c \in SrvConns |-> <<>>]
  /\ unbindRecv = [c \in SrvConns |-> FALSE]
  /\ lastOp = NoOp
  /\ liveAtShutdown = [c \in SrvConns |-> FALSE]

\* Serve's error path as it would be without the deferred delete of lines 75-79.
AcceptErrorNoDeregister(l) ==
  /\ crashed = "none"
  /\ lastOp' = NoOp
  /\ servePc[l] = "accept"
  /\ lnOpen[l]
  /\ servePc' = [servePc EXCEPT ![l] = "returned"]
  /\ serveErr' = [serveErr EXCEPT ![l] = "accept error"]
  /\ UNCHANGED listeners
  /\ UNCHANGED <<handleConnection, lnOpen, serveConn, serveI, nConn, chDone, srvWg, shutPc>>
  /\ UNCHANGED <<variant, crashed, Numero, sPc, chanVars, taskVars, regVars, hVars,
                 inboxVars, enq, wire, unbindRecv, liveAtShutdown>>

\* Serve's error path as it would be if the exit of an accept loop emitted the
\* shutdown signal to the Sessions.
AcceptErrorSignalsShutdown(l) ==
  /\ crashed = "none"
  /\ lastOp' = NoOp
  /\ servePc[l] = "accept"
  /\ lnOpen[l]
  /\ servePc' = [servePc EXCEPT ![l] = "returned"]
  /\ serveErr' = [serveErr EXCEPT ![l] = "accept error"]
  /\ listeners' = listeners \ {l}
  /\ chDone' = TRUE
  /\ UNCHANGED <<handleConnection, lnOpen, serveConn, serveI, nConn, srvWg, shutPc>>
  /\ UNCHANGED <<variant, crashed, Numero, sPc, chanVars, taskVars, regVars, hVars,
                 inboxVars, enq, wire, unbindRecv, liveAtShutdown>>

\* listener.Accept() fails with an error that is not Temporary() while the listener
\* is open: Serve returns the error (line 91) and its deferred function removes the
\* listener from the set (lines 75-79).
AcceptError(l) ==
  /\ crashed = "none"
  /\ lastOp' = NoOp
  /\ servePc[l] = "accept"
  /\ lnOpen[l]
  /\ servePc' = [servePc EXCEPT ![l] = "returned"]
  /\ serveErr' = [serveErr EXCEPT ![l] = "accept error"]
  /\ listeners' = listeners \ {l}
  /\ UNCHANGED <<handleConnection, lnOpen, serveConn, serveI, nConn, chDone, srvWg, shutPc>>
  /\ UNCHANGED <<variant, crashed, Numero, sPc, chanVars, taskVars, regVars, hVars,
                 inboxVars, enq, wire, unbindRecv, liveAtShutdown>>

\* Shutdown called again after a call of it has returned: lines 127-132 once more.
ShutdownAgain ==
  /\ crashed = "none"
  /\ lastOp' = NoOp
  /\ shutPc = "returned"
  /\ lnOpen' = [l \in DOMAIN lnOpen |-> IF l \in listeners THEN FALSE ELSE lnOpen[l]]
  /\ listeners' = {}
  /\ shutPc' = "signal"
  /\ UNCHANGED <<handleConnection, servePc, serveErr, serveConn, serveI, nConn, chDone, srvWg>>
  /\ UNCHANGED <<variant, crashed, Numero, sPc, chanVars, taskVars, regVars, hVars,
                 inboxVars, enq, wire, unbindRecv, liveAtShutdown>>

SrvNext ==
  \/ \E l \in SrvListeners : ServeEnter(l)
  \/ \E l \in SrvListeners : AcceptConn(l)
  \/ \E l \in SrvListeners : AcceptTemporary(l)
  \/ \E l \in SrvListeners : AcceptError(l)
  \/ \E l \in SrvListeners : AcceptFatal(l)
  \/ \E l \in SrvListeners : AcceptSpawn(l)
  \/ ShutdownLock
  \/ ShutdownSignal
  \/ ShutdownWait
  \/ ShutdownAgain
  \/ \E c \in SrvConns : serveStart(c)
  \/ \E c \in SrvConns : ReadTimeoutError(c)
  \/ \E c \in SrvConns : ReadEOF(c)
  \/ \E c \in SrvConns : writeMessage(c)
  \/ \E c \in SrvConns : WriterExit(c)
  \/ \E c \in SrvConns : WatchSelect(c)
  \/ \E c \in SrvConns : WatchAdd(c)
  \/ \E c \in SrvConns : WatchSend(c)
  \/ \E c \in SrvConns : WatchDone(c)
  \/ \E c \in SrvConns : closeSignal(c)
  \/ \E c \in SrvConns : closeCancel(c)
  \/ \E c \in SrvConns : closeWait(c)
  \/ \E c \in SrvConns : closeQueue(c)
  \/ \E c \in SrvConns : closeSocket(c)
  \/ \E c \in SrvConns : closeRelease(c)

ServerSpec == SrvInit /\ [][SrvNext]_vars

\* ------------------------------------- the Session under a failing accept loop
\* The Server and Session of Spec, with the Accept error that is not Temporary()
\* added to what the listener may do, so that Serve can return while a Session
\* with requests in flight is being served.
AcceptErrNext ==
  \/ Next
  \/ \E l \in Listeners : AcceptError(l)

AcceptErrSpec == Init /\ [][AcceptErrNext]_vars

\* ------------------------------------------------- the Session under a panic
\* handler.ServeLDAP panics.  No function of the package calls recover(): the
\* deferred functions of ProcessRequestMessage run while the goroutine unwinds
\* (delete of the registry entry, cancelCtx(), c.wg.Done()); a handler started with
\* go then ends its goroutine with the panic, which ends the process; a handler
\* called on the dispatch task unwinds into client.serve, whose deferred c.close()
\* runs before the goroutine ends.
HandlerPanic(c, k) ==
  /\ crashed = "none"
  /\ lastOp' = NoOp
  /\ hPc[c][k] = "serving"
  /\ hPc' = [hPc EXCEPT ![c][k] = "panicked"]
  /\ requestCancel' = [requestCancel EXCEPT ![c][hId[c][k]] = 0]
  /\ hCancelled' = [hCancelled EXCEPT ![c] = cancelCtx(hCancelled[c], k)]
  /\ cliWg' = [cliWg EXCEPT ![c] = cliWg[c] - 1]
  /\ IF inlineSlot[c] = k
       THEN /\ inlineSlot' = [inlineSlot EXCEPT ![c] = 0]
            /\ sPc' = [sPc EXCEPT ![c] = "close"]
            /\ UNCHANGED crashed
       ELSE /\ crashed' = "panic in handler"
            /\ UNCHANGED <<inlineSlot, sPc>>
  /\ UNCHANGED <<variant, Numero, srvVars, chanVars, taskVars, nReq, nAbandon, hId, hOp,
                 hWrites, inboxVars, enq, wire, unbindRecv, liveAtShutdown>>

\* client.serve unwound by the panic of a handler it called: the deferred c.close()
\* has returned, the goroutine ends with the panic, which ends the process.
servePanicked(c) ==
  /\ crashed = "none"
  /\ lastOp' = NoOp
  /\ sPc[c] = "done"
  /\ \E k \in Slots : hPc[c][k] = "panicked"
  /\ crashed' = "panic in handler"
  /\ UNCHANGED <<variant, Numero, sPc, srvVars, chanVars, taskVars, regVars, hVars,
                 inboxVars, enq, wire, unbindRecv, liveAtShutdown>>

PanicNext ==
  \/ Next
  \/ \E c \in Conns, k \in Slots : HandlerPanic(c, k)
  \/ \E c \in Conns : servePanicked(c)

PanicSpec == Init /\ [][PanicNext]_vars

\* ------------------------------------------- the Session under a StartTLS swap
\* client.SetConn called by the StartTLS handler once its response has been handed
\* to the Writer Task: c.rwc, c.br and c.bw are replaced, with no lock and no wait
\* for the Writer Task.
SetConn(c, k) ==
  /\ crashed = "none"
  /\ lastOp' = NoOp
  /\ hPc[c][k] = "serving"
  /\ hOp[c][k] = "StartTLS"
  /\ hWrites[c][k] > 0
  /\ sock[c] = "open"
  /\ sock' = [sock EXCEPT ![c] = "tls"]
  /\ UNCHANGED <<variant, crashed, Numero, sPc, srvVars, closing, chanOut, writeDone, rdl,
                 taskVars, regVars, hVars, inboxVars, enq, wire, unbindRecv, liveAtShutdown>>

\* client.writeMessage racing with SetConn on c.bw, read twice without a lock:
\* c.bw.Write puts the bytes in the buffer of the writer being replaced and
\* c.bw.Flush flushes the new, empty one, so the message reaches no transport.
writeMessageTorn(c, k) ==
  /\ crashed = "none"
  /\ lastOp' = NoOp
  /\ wPc[c] = "write"
  /\ hPc[c][k] = "serving"
  /\ hOp[c][k] = "StartTLS"
  /\ hWrites[c][k] > 0
  /\ sock[c] = "open"
  /\ sock' = [sock EXCEPT ![c] = "tls"]
  /\ wMsg' = [wMsg EXCEPT ![c] = NoOut]
  /\ wPc' = [wPc EXCEPT ![c] = "recv"]
  /\ UNCHANGED <<variant, crashed, Numero, sPc, srvVars, closing, chanOut, writeDone, rdl,
                 watchPc, regVars, hVars, inboxVars, enq, wire, unbindRecv, liveAtShutdown>>

TLSNext ==
  \/ Next
  \/ \E c \in Conns, k \in Slots : SetConn(c, k)
  \/ \E c \in Conns, k \in Slots : writeMessageTorn(c, k)

TLSSpec == Init /\ [][TLSNext]_vars

\* The accept loop of listener l is live: Serve passed its check and has not returned.
AcceptLoopLive(l) == servePc[l] \in {"accept", "accepted"}

\* ------------------------------------------------------ derived predicates
\* Positions of client.close, in order.
ClosePcs == {"close", "cancel", "wait", "closeq", "drain", "release", "done"}

\* close() has fired the registered cancels and cleared the registry.
CloseCancelled(c) == sPc[c] \in {"wait", "closeq", "drain", "release", "done"}

\* The Session finished its close protocol: socket closed, Server.wg released.
SessionClosed(c) == sPc[c] = "done"

\* A handler the dispatcher started (c.wg.Add(1) done) that has not returned.
HandlerRunning(c, k) == hPc[c][k] \in {"called", "serving"}

\* serve() got no Handler from HandleConnection.
NoHandler(c) == closing[c] # "nil" /\ chanOut[c] = "nil"

NoticeCount(seq) == Cardinality({i \in DOMAIN seq : IsNotice(seq[i])})

IsPrefix(a, b) == Len(a) <= Len(b) /\ SubSeq(b, 1, Len(a)) = a

\* Any step of the tasks of Session c.
SessionStep(c) ==
  \/ serveStart(c)
  \/ \E m \in ClientMessages : DispatchMessage(c, m)
  \/ ReadTimeoutError(c)
  \/ ReadEOF(c)
  \/ \E k \in Slots : Register(c, k)
  \/ \E k \in Slots : HandlerWrite(c, k)
  \/ \E k \in Slots : HandlerReturn(c, k)
  \/ writeMessage(c)
  \/ WriterExit(c)
  \/ WatchSelect(c)
  \/ WatchAdd(c)
  \/ WatchSend(c)
  \/ WatchDone(c)
  \/ closeSignal(c)
  \/ closeCancel(c)
  \/ closeWait(c)
  \/ closeQueue(c)
  \/ closeSocket(c)
  \/ closeRelease(c)
  \/ \E m \in ClientMessages : ReaderMessage(c, m)
  \/ ReaderPut(c)
  \/ ReaderError(c)
  \/ InboxDispatch(c)
  \/ InboxClosed(c)

\* No task of Session c can take a step: the Session is at rest for good.
SessionAtRest(c) == ~ENABLED SessionStep(c)

\* Nothing in the process can change the state any more.
ProcessAtRest == ~ENABLED <<Next>>_vars

\* ------------------------------------------------------------------ claims
\* C1: Shutdown does not return while a Session spawned by this Server has not
\* finished its close protocol; once Shutdown has returned, every Session that runs
\* has its socket closed and has released the Server join counter.
C1_ShutdownJoinsEverySession ==
  shutPc = "returned" => \A c \in Conns : sPc[c] \in {"unborn", "done"}

\* C2: a Session whose dispatch loop is running when the shutdown signal is emitted
\* has exactly one Notice of Disconnection on its socket when the socket closes, and
\* never more than one.
C2_ExactlyOneNotice ==
  \A c \in Conns :
    /\ NoticeCount(wire[c]) <= 1
    /\ (liveAtShutdown[c] /\ sock[c] = "closed") => NoticeCount(wire[c]) = 1

\* C3: a handler the dispatcher started, still running when close() runs, gets its
\* cancellation signal fired: the Session never comes to rest, its close protocol
\* begun, with a running handler whose signal has not fired.
C3_CloseCancelsEveryHandler ==
  \A c \in Conns : \A k \in Slots :
    (sPc[c] \in ClosePcs /\ HandlerRunning(c, k) /\ SessionAtRest(c)) => hCancelled[c][k]

\* C4: once Shutdown is invoked, handlers returning when cancelled, every Session
\* completes its close protocol and Shutdown returns: the process never comes to
\* rest alive with Shutdown invoked and not returned or a Session not closed.
C4_ShutdownCompletes ==
  (shutPc # "idle" /\ crashed = "none" /\ ProcessAtRest) =>
    /\ shutPc = "returned"
    /\ \A c \in Conns : sPc[c] \in {"unborn", "done"}

\* C5: an AbandonRequest whose target T is registered fires the cancel registered
\* under T and removes that entry; no other request is cancelled or removed, no
\* entry is created, the join counter is untouched and nothing is enqueued.
C5_AbandonCancelsTarget ==
  [][lastOp'.kind = "AbandonRequest" =>
       LET c == lastOp'.conn
           T == lastOp'.target
           k == requestCancel[c][T]
       IN  k # 0 =>
             /\ hCancelled'[c][k]
             /\ requestCancel'[c][T] = 0
             /\ \A i \in MsgIds \ {T} : requestCancel'[c][i] = requestCancel[c][i]
             /\ \A j \in Slots \ {k} : hCancelled'[c][j] = hCancelled[c][j]
             /\ cliWg'[c] = cliWg[c]
             /\ nReq'[c] = nReq[c]
             /\ enq'[c] = enq[c]]_vars

\* C6: once an UnbindRequest has been read on a Session, no further message is
\* written on its socket.
C6_NothingWrittenAfterUnbind ==
  [][\A c \in Conns : unbindRecv[c] => wire'[c] = wire[c]]_vars

\* C7: a Session that got no Handler performs its close protocol without a panic.
C7_NoHandlerClosesCleanly ==
  \A c \in Conns : NoHandler(c) => crashed = "none"

\* C8: the Outbound Queue is closed once and no producer sends on it after the close.
C8_NoSendAfterQueueClose ==
  crashed \notin {"send on closed channel", "close of closed channel"}

C10_ClientCannotCrashServer ==
  (shutPc = "idle" /\ \A c \in Conns : ~NoHandler(c)) =>
    /\ crashed = "none"
    /\ \A l \in Listeners :
         (servePc[l] # "idle" /\ handleConnection = "set") =>
           (servePc[l] \in {"accept", "accepted"} /\ l \in listeners /\ lnOpen[l])

\* A client ran Bind, a Search and an Abandon and went away; its Session is closed,
\* the server alive and accepting.
C10_Witness ==
  \E c \in Conns :
    /\ sPc[c] = "done"
    /\ nAbandon[c] = 1
    /\ \E k, j \in Slots :
         /\ hOp[c][k] = "BindRequest" /\ hPc[c][k] = "finished"
         /\ hOp[c][j] = "SearchRequest" /\ hPc[c][j] = "finished"
    /\ ~unbindRecv[c]
    /\ shutPc = "idle"
    /\ crashed = "none"
    /\ \E l \in Listeners : servePc[l] = "accept"

\* C12: without a connection-construction callback Serve fails fast: it has returned
\* the "no handler defined" error, its listener is neither registered nor closed,
\* nothing was accepted, no Session exists and the Server join counter is zero.
C12_ServeFailsFastWithoutCallback ==
  handleConnection = "nil" =>
    /\ listeners = {}
    /\ nConn = 0
    /\ srvWg = 0
    /\ \A c \in Conns : sPc[c] = "unborn" /\ Numero[c] = 0
    /\ \A l \in Listeners :
         /\ servePc[l] \in {"idle", "returned"}
         /\ serveConn[l] = 0 /\ serveI[l] = 0
         /\ lnOpen[l]
         /\ servePc[l] = "returned" => serveErr[l] = "no LDAP Request Handler defined"

\* Serve was called without a callback and has returned; Shutdown ran as well.
C12_Witness ==
  /\ handleConnection = "nil"
  /\ \E l \in Listeners :
       servePc[l] = "returned" /\ serveErr[l] = "no LDAP Request Handler defined"
  /\ shutPc = "returned"

C15_CloseProtocolOrder ==
  \A c \in Conns :
    chanOut[c] # "nil" =>
      /\ CloseCancelled(c) => closing[c] = "closed"
      /\ chanOut[c] = "closed" =>
           /\ CloseCancelled(c)
           /\ cliWg[c] = 0
           /\ \A k \in Slots : ~HandlerRunning(c, k)
           /\ watchPc[c] \notin {"add", "send"}
      /\ sock[c] = "closed" => (chanOut[c] = "closed" /\ writeDone[c] = "closed")
      /\ sPc[c] = "done" => sock[c] = "closed"

\* C16: the keys of the Request Registry are the message ids of the handlers that
\* registered and have not returned, a handler whose cancel was fired (by an Abandon
\* or by close, which delete its entry) set aside: a key has a serving handler, and
\* a serving handler not cancelled has its key.
C16_RegistryIsRunningHandlers ==
  \A c \in Conns : \A i \in MsgIds :
    /\ requestCancel[c][i] # 0 =>
         \E k \in Slots : hPc[c][k] = "serving" /\ hId[c][k] = i
    /\ (\E k \in Slots : hPc[c][k] = "serving" /\ hId[c][k] = i /\ ~hCancelled[c][k]) =>
         requestCancel[c][i] # 0

\* C17: while ProcessRequestMessage of a StartTLS request executes on the dispatch
\* task the connection is quiesced: no other handler of the Session is running and
\* nothing but the StartTLS handler's own response is written or enqueued.
C17_StartTLSQuiesced ==
  [][\A c \in Conns : \A k \in Slots :
       (hOp[c][k] = "StartTLS" /\ HandlerRunning(c, k) /\ inlineSlot[c] = k) =>
         /\ \A j \in Slots \ {k} : ~HandlerRunning(c, j)
         /\ wire'[c] # wire[c] =>
              wire'[c] = Append(wire[c], Response(hId[c][k], ResponseOp(hOp[c][k])))
         /\ enq'[c] # enq[c] => hWrites'[c][k] > hWrites[c][k]]_vars

\* C18: an AbandonRequest whose target is not registered when it is processed leaves
\* the Session as it was: registry, cancellation signals, handler join counter,
\* handlers started and Outbound Queue unchanged, nothing enqueued or written.
C18_LostAbandonChangesNothing ==
  [][lastOp'.kind = "AbandonRequest" =>
       LET c == lastOp'.conn
           T == lastOp'.target
       IN  requestCancel[c][T] = 0 =>
             /\ requestCancel'[c] = requestCancel[c]
             /\ hCancelled'[c] = hCancelled[c]
             /\ cliWg'[c] = cliWg[c]
             /\ nReq'[c] = nReq[c]
             /\ hPc'[c] = hPc[c]
             /\ chanOut'[c] = chanOut[c]
             /\ enq'[c] = enq[c]
             /\ wire'[c] = wire[c]]_vars

\* C11: no two Sessions of one Server have the same connection ordinal, the
\* Sessions of different listeners of that Server included.
C11_OrdinalsUnique ==
  \A c, d \in DOMAIN Numero :
    (c # d /\ sPc[c] # "unborn" /\ sPc[d] # "unborn") => Numero[c] # Numero[d]

\* C13: a call of Shutdown made after a call of it has returned does not panic.
C13_SecondShutdownCompletes ==
  ~(shutPc = "signal" /\ chDone /\ crashed = "close of closed channel")

\* C19 as stated: a listener is in the listener set if and only if its accept loop
\* is live.
C19_ListenerSetIff ==
  \A l \in DOMAIN servePc : l \in listeners <=> AcceptLoopLive(l)

\* C19, amended: a listener in the set has a live accept loop, and a live accept loop
\* whose listener is not in the set is one whose listener Shutdown has closed.
C19_ListenerSetAmended ==
  \A l \in DOMAIN servePc :
    /\ l \in listeners => AcceptLoopLive(l)
    /\ (AcceptLoopLive(l) /\ l \notin listeners) => ~lnOpen[l]

\* Shutdown has closed a listener and cleared the set and the loop has not yet
\* exited; the loop of another listener, entered afterwards, is live and registered.
C19_Witness ==
  \E l, k \in DOMAIN servePc :
    /\ AcceptLoopLive(l) /\ l \notin listeners /\ ~lnOpen[l]
    /\ AcceptLoopLive(k) /\ k \in listeners /\ lnOpen[k]

\* C20: once Shutdown has closed the listeners (and from then on), every live accept
\* loop has its listener closed, so that its next Accept fails and Serve returns.
C20_AcceptLoopsExit ==
  shutPc # "idle" => \A l \in DOMAIN servePc : AcceptLoopLive(l) => ~lnOpen[l]


\* C21: a step in which an accept loop exits on an Accept error makes Serve return
\* that error and removes its listener, and no other, from the listener set; it does
\* not emit the shutdown signal, closes no listener, and leaves every Session (its
\* position, channels, socket, deadline, tasks, registry, join counter, handlers,
\* Outbound Queue and what was written) as it was.
C21_AcceptErrorLeavesSessions ==
  [][\A l \in DOMAIN servePc :
       (servePc[l] = "accept" /\ servePc'[l] = "returned") =>
         /\ serveErr'[l] = IF lnOpen[l] THEN "accept error"
                                        ELSE "use of closed network connection"
         /\ listeners' = listeners \ {l}
         /\ chDone' = chDone
         /\ shutPc' = shutPc
         /\ lnOpen' = lnOpen
         /\ srvWg' = srvWg
         /\ crashed' = crashed
         /\ UNCHANGED <<Numero, sPc, chanVars, taskVars, regVars, hVars, inboxVars,
                        enq, wire>>]_vars

\* Serve has returned the Accept error of an open listener with no shutdown asked
\* for, and the Session it had spawned is in its dispatch loop with a registered
\* handler running, an open socket and a response already written.
C21_Witness ==
  \E l \in DOMAIN servePc : \E c \in DOMAIN sPc : \E k \in Slots :
    /\ servePc[l] = "returned"
    /\ serveErr[l] = "accept error"
    /\ l \notin listeners
    /\ lnOpen[l]
    /\ ~chDone
    /\ shutPc = "idle"
    /\ sPc[c] = LoopPc
    /\ sock[c] = "open"
    /\ hPc[c][k] = "serving"
    /\ requestCancel[c][hId[c][k]] = k
    /\ Len(wire[c]) > 0


\* C22: a handler that panicked counts as a handler that completed: its registry
\* entry is gone, it is no longer joined on, and the panic stays inside the
\* Session: the process keeps running.
C22_HandlerPanicContained ==
  \A c \in DOMAIN sPc : \A k \in Slots :
    hPc[c][k] = "panicked" =>
      /\ requestCancel[c][hId[c][k]] # k
      /\ cliWg[c] >= 0
      /\ crashed = "none"

\* C23: once the Notice of Disconnection has been written on a Session's socket,
\* nothing more is written on that socket and no request handler is started on
\* that Session.
C23_NoticeIsLast ==
  [][\A c \in DOMAIN sPc :
       (\E i \in 1..Len(wire[c]) : IsNotice(wire[c][i])) =>
         /\ wire'[c] = wire[c]
         /\ nReq'[c] = nReq[c]]_vars


\* C24: when SetConn replaces the connection and its buffered writer, every
\* response enqueued before has been written and flushed on the old ones, and the
\* Writer Task is not in writeMessage.
C24_WrittenBeforeSwap ==
  [][\A c \in DOMAIN sPc :
       (sock[c] = "open" /\ sock'[c] = "tls") =>
         /\ wPc[c] # "write"
         /\ wire[c] = enq[c]
         /\ wire'[c] = wire[c]]_vars

====
